---- MODULE Spec2Model ----
(***************************************************************************)
(* Model of the stream supervision code of pkmksingh/rtmp1.                *)
(*                                                                         *)
(* RTMPStreamer (src/rtmp_streamer.py) keeps one ffmpeg process per        *)
(* destination name in the dict ffmpeg_processes and runs a monitor thread *)
(* (_monitor_streams) beside the control thread that calls                 *)
(* start_streaming / stop_streaming / restart_streaming, directly or       *)
(* through BackgroundService (src/background_service.py).                  *)
(*                                                                         *)
(* One step of a thread is the code between two blocking calls             *)
(* (time.sleep, Thread.join, subprocess.Popen/run): the Python threads     *)
(* interleave at those calls.  The external processes, the Twitch source   *)
(* and the wall clock are the environment: a process may exit at any time, *)
(* may or may not honour terminate(), the source may go on- or offline     *)
(* at any time, and the two clock tests of the monitor                     *)
(* (current_time - last_twitch_check > 20, current_time % 60 < 5) are      *)
(* inputs of the tick.                                                     *)
(***************************************************************************)
EXTENDS Integers, Sequences, FiniteSets, TLC

(***************************************************************************)
(* Bounds of the model.                                                    *)
(***************************************************************************)
\* size of the pool of process slots (a slot is reused once its process is
\* dead and no longer referenced by the program)
MaxProcs == 3
\* number of monitor threads that can exist together
MaxMonitors == 2
\* consecutive_failures values are kept up to this value (the code only
\* compares them with max_failures, so larger values behave alike)
MaxFailCount == 4
\* number of calls the control thread makes in the scenario "calls"
MaxCalls == 3

(***************************************************************************)
(* Program constants.                                                      *)
(***************************************************************************)
\* the ResilientStreamer threads, and the Event objects, that exist
MaxStreamers == 2
\* the waits a ResilientStreamer thread makes
MaxWaits == 8

max_failures == 3

Pids == 1..MaxProcs
Monitors == 1..MaxMonitors
\* Python's None, for a thread or process reference that is not set
None == 0

(***************************************************************************)
(* URLs are sequences of characters; validate_rtmp_url is the regular      *)
(* expression  ^rtmp(s)?://[^\s/$.?#].[^\s]*$  applied with re.match.      *)
(***************************************************************************)
Whitespace == {" ", "\t", "\n"}
HostStartExcluded == Whitespace \cup {"/", "$", ".", "?", "#"}

\* does u match at position p (1-based) the rest of the pattern after the
\* scheme:  ://[^\s/$.?#].[^\s]*$
MatchAfterScheme(u, p) ==
    /\ Len(u) >= p + 4
    /\ u[p] = ":" /\ u[p + 1] = "/" /\ u[p + 2] = "/"
    /\ u[p + 3] \notin HostStartExcluded
    /\ u[p + 4] # "\n"
    /\ \A k \in (p + 5)..Len(u) :
          \/ u[k] \notin Whitespace
          \/ (k = Len(u) /\ u[k] = "\n")      \* $ also matches before a final newline

validate_rtmp_url(u) ==
    /\ Len(u) >= 4
    /\ u[1] = "r" /\ u[2] = "t" /\ u[3] = "m" /\ u[4] = "p"
    /\ \/ MatchAfterScheme(u, 5)
       \/ (Len(u) >= 5 /\ u[5] = "s" /\ MatchAfterScheme(u, 6))

UrlA == <<"r", "t", "m", "p", ":", "/", "/", "a", "/", "k">>
UrlB == <<"r", "t", "m", "p", "s", ":", "/", "/", "b", "/", "k">>
UrlBad == <<"h", "t", "t", "p", ":", "/", "/", "b", "/", "k">>
UrlNewline == UrlB \o <<"\n">>

\* a URL that is not of the form rtmp://... or rtmps://..., or that holds a
\* whitespace character
Malformed(u) ==
    \/ ~validate_rtmp_url(u)
    \/ \E k \in DOMAIN u : u[k] \in Whitespace

(***************************************************************************)
(* Destinations: the list of dicts {name, url, enabled} a caller passes.   *)
(***************************************************************************)
Names == {"A", "B"}

Dest(n, u, e) == [name |-> n, url |-> u, enabled |-> e]

DestinationInputs ==
    { <<>>,
      << Dest("A", UrlA, FALSE) >>,
      << Dest("A", UrlA, TRUE) >>,
      << Dest("A", UrlA, TRUE), Dest("B", UrlB, TRUE) >>,
      << Dest("A", UrlA, TRUE), Dest("B", UrlB, FALSE) >>,
      << Dest("A", UrlA, TRUE), Dest("B", UrlBad, TRUE) >>,
      << Dest("A", UrlA, TRUE), Dest("B", UrlNewline, TRUE) >> }

\* [d for d in destinations if d.get('enabled', True)]
EnabledOf(destinations) == SelectSeq(destinations, LAMBDA d : d.enabled)

(***************************************************************************)
(* ConfigManager: the stored list of destinations.                         *)
(***************************************************************************)
\* the longest list the callers build
MaxDestinations == 3

\* save_rtmp_destinations(destinations): config["rtmp_destinations"] is set
\* to the list as given and written with json.dump; what a later load_config
\* returns
save_rtmp_destinations(destinations) == destinations

\* add_rtmp_destination(name, url, enabled): what is stored afterwards
add_rtmp_destination(destinations, name, url, enabled) ==
    IF \E j \in DOMAIN destinations :
          destinations[j].name = name \/ destinations[j].url = url
    THEN destinations
    ELSE save_rtmp_destinations(Append(destinations, Dest(name, url, enabled)))

\* remove_rtmp_destination(name): what is stored afterwards
remove_rtmp_destination(destinations, name) ==
    save_rtmp_destinations(SelectSeq(destinations, LAMBDA d : d.name # name))

\* list.pop(i), the list that is left (i counts from 1 here)
Pop(destinations, i) ==
    [j \in 1..(Len(destinations) - 1) |->
        IF j < i THEN destinations[j] ELSE destinations[j + 1]]

(***************************************************************************)
(* State.                                                                  *)
(***************************************************************************)
VARIABLES
    running,            \* RTMPStreamer.running
    ffmpeg_processes,   \* RTMPStreamer.ffmpeg_processes: the dict, as the sequence
                        \* of its entries [name, process] in insertion order
    monitor_thread,     \* RTMPStreamer.monitor_thread: a monitor id or None
    current_config,     \* BackgroundService.current_config: <<>> for {} or the
                        \* sequence of enabled destinations it records
    proc,               \* the external ffmpeg processes, by slot
    twitch_online,      \* environment: is the Twitch source live
    main,               \* the control thread (caller of start/stop/restart)
    mon,                \* the monitor threads, by id
    rtmp_destinations,  \* ConfigManager: config["rtmp_destinations"] as stored
    streamers,          \* the ResilientStreamer threads, by id
    stop_events,        \* the threading.Event objects given to them: is_set()
    logs,               \* BackgroundService.logs: the entries, each one the
                        \* serial number of the _add_log call that made it
                        \* (the order of the timestamps); the messages are
                        \* followed only in SpecLogs
    logged              \* the number of _add_log calls made so far

\* RTMPStreamer and BackgroundService
streamer_vars == <<running, ffmpeg_processes, monitor_thread, current_config,
                   proc, twitch_online, main, mon>>

\* ResilientStreamer
resilient_vars == <<streamers, stop_events>>

\* BackgroundService.logs
log_vars == <<logs, logged>>

vars == <<streamer_vars, rtmp_destinations, resilient_vars, log_vars>>

(***************************************************************************)
(* External processes.  st: "free" (no process in the slot), "alive" or    *)
(* "dead".  name is the destination a live process writes to; old says the *)
(* live process belongs to an earlier generation than the latest           *)
(* start_streaming.                                                        *)
(***************************************************************************)
FreeProc == [st |-> "free", name |-> "-", old |-> FALSE]
DeadProc == [st |-> "dead", name |-> "-", old |-> FALSE]

\* process.poll() is None
IsAlive(pr, p) == pr[p].st = "alive"

\* process.terminate(): the process honours the signal or not
Terminate(pr, p, honoured) ==
    IF IsAlive(pr, p) /\ honoured THEN [pr EXCEPT ![p] = DeadProc] ELSE pr

\* process.kill()
Kill(pr, p) ==
    IF IsAlive(pr, p) THEN [pr EXCEPT ![p] = DeadProc] ELSE pr

(***************************************************************************)
(* The dict ffmpeg_processes.                                              *)
(***************************************************************************)
Keys(fp) == {fp[i].name : i \in DOMAIN fp}

IndexOf(fp, n) == CHOOSE i \in DOMAIN fp : fp[i].name = n

\* self.ffmpeg_processes[n]['process']
ProcessOf(fp, n) == fp[IndexOf(fp, n)].process

\* self.ffmpeg_processes[n] = {'process': p, ...}: a present key keeps its
\* place, a new key goes last
DictSet(fp, n, p) ==
    IF n \in Keys(fp)
    THEN [fp EXCEPT ![IndexOf(fp, n)].process = p]
    ELSE Append(fp, [name |-> n, process |-> p])

\* a removal that empties the dict
DictDrop(fp, n) == <<>>

\* del self.ffmpeg_processes[n]
DictDel(fp, n) == SelectSeq(fp, LAMBDA e : e.name # n)

MappedPids(fp) == {fp[i].process : i \in DOMAIN fp}

\* the keys of the dict in insertion order
KeySeq(fp) == [j \in DOMAIN fp |-> fp[j].name]

(***************************************************************************)
(* The threads.  A step of a thread runs from one blocking call to the     *)
(* next; pc names the blocking call the thread is in.                      *)
(***************************************************************************)
\* the control thread between two calls.  last is the kind of the call that
\* returned last ("stop2": a stop_streaming that followed another one, or
\* came first), result what it returned.
MainIdle ==
    [pc |-> "idle", op |-> "none", scenario |-> "calls", via |-> "service",
     last |-> "none",
     result |-> TRUE, calls |-> 0,
     destinations |-> <<>>, i |-> 0, success_count |-> 0, process |-> None,
     di_pos |-> 0, di_used |-> 0, dirty |-> FALSE, seen |-> {}]

\* a monitor id with no thread
MonNone ==
    [pc |-> "none", stale |-> FALSE, destinations |-> <<>>,
     last_twitch_check |-> 0, twitch_was_online |-> TRUE, twitch_online |-> TRUE,
     in_window |-> FALSE,
     consecutive_failures |-> [n \in Names |-> 0],
     dead_streams |-> <<>>, k |-> 0, i |-> 0, process |-> None]

\* ResilientStreamer.run: backoff = 1.0
initial_backoff == 1
\* ResilientStreamer.run: min(backoff * 2, 60)
max_backoff == 60

Streamers == 1..MaxStreamers
Events == 1..MaxStreamers

\* a ResilientStreamer after __init__, before start().  proc is self.proc
\* with the state of the process: "none" for None, "alive", "dead".  waits
\* counts the waits of time.sleep(backoff) that have ended, waited is the
\* length of the last of them; after tells which call of _terminate_proc
\* the thread is in; ran tells that the process of this iteration was found
\* alive by a poll of the inner loop; orphans counts the live processes the
\* thread has spawned and self.proc no longer refers to.
NewStreamer ==
    [pc |-> "new", stop_event |-> 1, backoff |-> 0, proc |-> "none",
     after |-> "none", waits |-> 0, waited |-> 0,
     ran |-> FALSE, orphans |-> 0]

\* threading.Thread.is_alive()
is_alive(mo, m) == mo[m].pc # "none"

\* the process slots the program still refers to
Referenced(fp, mn, mo) ==
    MappedPids(fp) \cup {mn.process} \cup mn.seen \cup {mo[m].process : m \in Monitors}

\* a slot whose process is dead and which nothing refers to is free again
Reap(pr, fp, mn, mo) ==
    [p \in Pids |->
        IF pr[p].st = "dead" /\ p \notin Referenced(fp, mn, mo) THEN FreeProc ELSE pr[p]]

FreePids(pr) == {p \in Pids : pr[p].st = "free"}

NewPid(pr) == CHOOSE p \in FreePids(pr) : \A q \in FreePids(pr) : p <= q

\* subprocess.Popen(cmd, ...) for destination name n
Popen(pr, n, old) ==
    [pr EXCEPT ![NewPid(pr)] = [st |-> "alive", name |-> n, old |-> old]]

\* a monitor changes the keys of the dict while the loop of stop_streaming
\* iterates over it
Touch(mn, fp, fp2) ==
    IF mn.pc = "stop_kill" /\ KeySeq(fp) # KeySeq(fp2)
    THEN [mn EXCEPT !.dirty = TRUE]
    ELSE mn

(***************************************************************************)
(* Scenarios bound what the caller does: the destination lists it passes,  *)
(* the number of calls it makes, the calls it uses, how many monitor       *)
(* threads can exist at a time, and whether it goes through                *)
(* BackgroundService ("service") or calls the RTMPStreamer directly        *)
(* ("streamer").                                                           *)
(*   calls:   any MaxCalls calls with one destination or none enabled      *)
(*   tick:    one start_streaming with any of the lists, then the monitor  *)
(*   restart: two destinations, start_streaming / restart_streaming twice  *)
(*   overlap: one destination, two calls, monitor threads of two           *)
(*            generations can exist together                               *)
(*   app:     the Streamlit app with two destinations stored: the          *)
(*            checkboxes, and one Start button press, which passes the     *)
(*            enabled destinations of the stored list                      *)
(* stored is the list in the configuration file at the beginning.          *)
(***************************************************************************)
Scenarios ==
    [calls   |-> [inputs |-> {<<>>, <<Dest("A", UrlA, FALSE)>>, <<Dest("A", UrlA, TRUE)>>},
                  cap |-> MaxCalls, kinds |-> {"start", "stop", "restart"},
                  slots |-> {1}, vias |-> {"service", "streamer"},
                  stored |-> <<>>],
     tick    |-> [inputs |-> DestinationInputs,
                  cap |-> 1, kinds |-> {"start"},
                  slots |-> {1}, vias |-> {"service", "streamer"},
                  stored |-> <<>>],
     restart |-> [inputs |-> {<<Dest("A", UrlA, TRUE), Dest("B", UrlB, TRUE)>>},
                  cap |-> 2, kinds |-> {"start", "restart"},
                  slots |-> {1}, vias |-> {"streamer"},
                  stored |-> <<>>],
     overlap |-> [inputs |-> {<<Dest("A", UrlA, TRUE)>>},
                  cap |-> 2, kinds |-> {"start", "stop", "restart"},
                  slots |-> Monitors, vias |-> {"streamer"},
                  stored |-> <<>>],
     app     |-> [inputs |-> {},
                  cap |-> 1, kinds |-> {"start", "toggle"},
                  slots |-> {1}, vias |-> {"service"},
                  stored |-> <<Dest("A", UrlA, TRUE), Dest("B", UrlB, TRUE)>>],
     again   |-> [inputs |-> {<<Dest("A", UrlA, TRUE)>>, <<Dest("B", UrlB, TRUE)>>},
                  cap |-> 2, kinds |-> {"start"},
                  slots |-> {1}, vias |-> {"service"},
                  stored |-> <<>>]]

\* the scenarios of Spec; "again" is that of SpecAgain
SpecScenarios == {"calls", "tick", "restart", "overlap", "app"}

InitIn(scenarios) ==
    /\ running = FALSE
    /\ ffmpeg_processes = <<>>
    /\ monitor_thread = None
    /\ current_config = <<>>
    /\ proc = [p \in Pids |-> FreeProc]
    /\ twitch_online \in BOOLEAN
    /\ \E scenario \in scenarios :
          \E via \in Scenarios[scenario].vias :
             main = [MainIdle EXCEPT !.scenario = scenario, !.via = via]
    /\ mon = [m \in Monitors |-> MonNone]
    /\ logs = <<>>
    /\ logged = 0

\* no ResilientStreamer is used
NoResilient ==
    /\ streamers = [s \in Streamers |-> NewStreamer]
    /\ stop_events = [e \in Events |-> FALSE]

Init ==
    /\ InitIn(SpecScenarios)
    /\ rtmp_destinations = Scenarios[main.scenario].stored
    /\ NoResilient

\* the bounds of the scenario of this behaviour
Scenario == Scenarios[main.scenario]

\* the lists the caller passes: the app passes
\* [d for d in destinations if d['enabled']] of the stored list, if it is
\* not empty (src/app.py, lines 120-124)
Inputs ==
    IF "toggle" \in Scenario.kinds
    THEN {EnabledOf(rtmp_destinations)} \ {<<>>}
    ELSE Scenario.inputs

(***************************************************************************)
(* The control thread: start_streaming.                                    *)
(***************************************************************************)
\* the call returns res
Return(mn, res) ==
    [MainIdle EXCEPT
       !.scenario = mn.scenario, !.via = mn.via, !.calls = mn.calls,
       !.result = res,
       !.last = IF mn.op = "stop"
                THEN (IF mn.last \in {"none", "stop", "stop2"} THEN "stop2" ELSE "stop")
                ELSE "start"]

\* the caller invokes start_streaming(twitch_channel, destinations, ...)
CallStart(destinations) ==
    /\ UNCHANGED <<rtmp_destinations, resilient_vars, log_vars>>
    /\ main.pc = "idle"
    /\ "start" \in Scenario.kinds
    /\ main.calls < Scenario.cap
    /\ main' = [main EXCEPT !.pc = IF main.via = "service" THEN "bs_start"
                                   ELSE "start_check",
                            !.op = "start", !.calls = @ + 1,
                            !.destinations = destinations]
    /\ UNCHANGED <<running, ffmpeg_processes, monitor_thread, current_config,
                   proc, twitch_online, mon>>

\* BackgroundService.start_streaming up to its call of
\* rtmp_streamer.start_streaming(twitch_channel, enabled_destinations, ...)
BSStart ==
    /\ UNCHANGED <<resilient_vars, log_vars>>
    /\ main.pc = "bs_start"
    /\ LET enabled_destinations == EnabledOf(main.destinations) IN
       IF enabled_destinations = <<>>
       THEN /\ main' = Return(main, FALSE)
            /\ UNCHANGED <<current_config, rtmp_destinations>>
       ELSE /\ current_config' = enabled_destinations
            /\ rtmp_destinations' = save_rtmp_destinations(main.destinations)
            /\ main' = [main EXCEPT !.pc = "start_check",
                                    !.destinations = enabled_destinations]
    /\ UNCHANGED <<running, ffmpeg_processes, monitor_thread, proc, twitch_online, mon>>

\* a start_streaming that lacks the test of self.running
NeverRunning(r) == FALSE

\* if self.running: return False
AlreadyRunning(r) == r

\* RTMPStreamer.start_streaming, lines 21-26: the running test, then
\* get_twitch_stream_url is called; a start that goes on opens a new
\* generation of processes
StartCheck ==
    /\ UNCHANGED <<rtmp_destinations, resilient_vars, log_vars>>
    /\ main.pc = "start_check"
    /\ IF AlreadyRunning(running)
       THEN /\ main' = Return(main, FALSE)
            /\ UNCHANGED <<proc, mon>>
       ELSE /\ main' = [main EXCEPT !.pc = "start_fetch"]
            /\ proc' = [p \in Pids |->
                          IF IsAlive(proc, p) THEN [proc[p] EXCEPT !.old = TRUE]
                          ELSE proc[p]]
            /\ mon' = [m \in Monitors |->
                          IF is_alive(mon, m) THEN [mon[m] EXCEPT !.stale = TRUE]
                          ELSE mon[m]]
    /\ UNCHANGED <<running, ffmpeg_processes, monitor_thread, current_config, twitch_online>>

\* _start_single_stream gets as far as Popen for this destination (lines 59-66)
Spawnable(d) == validate_rtmp_url(d.url)

\* the next destination from index i0 on for which a loop
\* "for dest in destinations: if dest.get('enabled', True): _start_single_stream"
\* reaches Popen; Len + 1 when there is none
NextSpawn(destinations, i0) ==
    LET cand == {j \in i0..Len(destinations) :
                    destinations[j].enabled /\ Spawnable(destinations[j])}
    IN  IF cand = {} THEN Len(destinations) + 1
        ELSE CHOOSE j \in cand : \A x \in cand : j <= x

\* a start_streaming that goes on whatever success_count is
StartAnyway(success_count) == success_count >= 0

\* if success_count > 0
StartSucceeded(success_count) == success_count > 0

FreeMonitors(mo) == {m \in Scenario.slots : ~is_alive(mo, m)}

\* start_streaming, lines 42-49: set running and start the monitor thread, or
\* report failure
StartFinish(fp, pr, success_count) ==
    /\ ffmpeg_processes' = fp
    /\ proc' = pr
    /\ IF StartSucceeded(success_count)
       THEN /\ FreeMonitors(mon) # {}
            /\ LET m == CHOOSE x \in FreeMonitors(mon) :
                           \A y \in FreeMonitors(mon) : x <= y
               IN  /\ running' = TRUE
                   /\ monitor_thread' = m
                   /\ mon' = [mon EXCEPT ![m] = [MonNone EXCEPT
                                                   !.pc = "top",
                                                   !.destinations = main.destinations]]
            /\ main' = Return(main, TRUE)
       ELSE /\ main' = Return(main, FALSE)
            /\ UNCHANGED <<running, monitor_thread, mon>>

\* the loop of start_streaming (lines 37-40) from index i0 on, with the dict
\* fp and the processes pr: up to the time.sleep(0.5) of the next
\* _start_single_stream whose Popen succeeds (Popen raises when no process can
\* be created), or to the end of start_streaming
StartLoop(fp, pr, i0, success_count) ==
    LET j == NextSpawn(main.destinations, i0) IN
    IF j <= Len(main.destinations) /\ FreePids(pr) # {}
    THEN /\ proc' = Popen(pr, main.destinations[j].name, FALSE)
         /\ main' = [main EXCEPT !.pc = "start_poll", !.i = j,
                                 !.success_count = success_count,
                                 !.process = NewPid(pr)]
         /\ ffmpeg_processes' = fp
         /\ UNCHANGED <<running, monitor_thread, mon>>
    ELSE StartFinish(fp, pr, success_count)

\* get_twitch_stream_url has returned (line 26): the loop begins
StartFetch ==
    /\ UNCHANGED <<rtmp_destinations, resilient_vars, log_vars>>
    /\ main.pc = "start_fetch"
    /\ StartLoop(ffmpeg_processes, proc, 1, 0)
    /\ UNCHANGED <<current_config, twitch_online>>

\* _start_single_stream after time.sleep(0.5) (lines 113-127): poll, record
\* the process, and the loop goes on
StartPoll ==
    /\ UNCHANGED <<rtmp_destinations, resilient_vars, log_vars>>
    /\ main.pc = "start_poll"
    /\ LET dest == main.destinations[main.i]
           ok == IsAlive(proc, main.process)
           fp == IF ok THEN DictSet(ffmpeg_processes, dest.name, main.process)
                 ELSE ffmpeg_processes
           pr == Reap(proc, fp, [main EXCEPT !.process = None], mon)
       IN  StartLoop(fp, pr, main.i + 1,
                     IF ok THEN main.success_count + 1 ELSE main.success_count)
    /\ UNCHANGED <<current_config, twitch_online>>

(***************************************************************************)
(* The control thread: stop_streaming and restart_streaming.               *)
(***************************************************************************)
\* the caller invokes stop_streaming(): self.running = False (line 138), then
\* the join
CallStop ==
    /\ UNCHANGED <<rtmp_destinations, resilient_vars, log_vars>>
    /\ main.pc = "idle"
    /\ "stop" \in Scenario.kinds
    /\ main.calls < Scenario.cap
    /\ running' = FALSE
    /\ main' = [main EXCEPT !.pc = "stop_join", !.op = "stop", !.calls = @ + 1]
    /\ UNCHANGED <<ffmpeg_processes, monitor_thread, current_config, proc,
                   twitch_online, mon>>

\* the caller invokes restart_streaming(twitch_channel, destinations, ...):
\* stop_streaming(), time.sleep(3), start_streaming(...)
CallRestart(destinations) ==
    /\ UNCHANGED <<rtmp_destinations, resilient_vars, log_vars>>
    /\ main.pc = "idle"
    /\ "restart" \in Scenario.kinds
    /\ main.calls < Scenario.cap
    /\ running' = FALSE
    /\ main' = [main EXCEPT !.pc = "stop_join", !.op = "restart", !.calls = @ + 1,
                            !.destinations = destinations]
    /\ UNCHANGED <<ffmpeg_processes, monitor_thread, current_config, proc,
                   twitch_online, mon>>

\* the monitor thread is inside a call that can outlast the join timeout:
\* check_twitch_stream (subprocess.run, timeout 10000000000000) or
\* get_twitch_stream_url (subprocess.run, timeout 30)
InLongCall(mo, m) == mo[m].pc \in {"check", "ra_fetch", "rs_spawn"}

\* a join without a timeout: it returns when there is no live thread
JoinWaits(mt, mo) ==
    IF mt = None THEN TRUE ELSE ~is_alive(mo, mt)

\* self.monitor_thread.join(timeout=5) returns: there is no live thread, or
\* the timeout expires while the thread is busy
JoinReturns(mt, mo) ==
    IF mt = None THEN TRUE
    ELSE IF ~is_alive(mo, mt) THEN TRUE
    ELSE InLongCall(mo, mt)

\* stop_streaming returns res; BackgroundService.stop_streaming then empties
\* current_config; inside restart_streaming the pause of 3 s follows
StopReturn(res) ==
    /\ main' = IF main.op = "restart"
               THEN [MainIdle EXCEPT !.pc = "restart_sleep", !.op = "restart",
                                     !.scenario = main.scenario,
                                     !.via = main.via, !.calls = main.calls,
                                     !.last = main.last,
                                     !.destinations = main.destinations]
               ELSE Return(main, res)
    /\ current_config' = IF main.via = "service" THEN <<>> ELSE current_config

\* the loop is over: self.ffmpeg_processes.clear(); return True
StopClear(pr) ==
    /\ ffmpeg_processes' = <<>>
    /\ StopReturn(TRUE)
    /\ proc' = Reap(pr, <<>>, main', mon)

\* the iteration raises RuntimeError (the dict changed during the iteration):
\* except Exception at line 161, return False
StopRaise(pr) ==
    /\ StopReturn(FALSE)
    /\ proc' = Reap(pr, ffmpeg_processes, main', mon)
    /\ UNCHANGED ffmpeg_processes

\* the loop body for an entry whose process runs: terminate(), time.sleep(2)
StopVisit(mn, pr, j) ==
    LET p == ffmpeg_processes[j].process IN
    /\ \E honoured \in BOOLEAN : proc' = Terminate(pr, p, honoured)
    /\ main' = [mn EXCEPT !.pc = "stop_kill", !.process = p,
                          !.di_pos = j + 1, !.seen = @ \cup {p}]
    /\ UNCHANGED <<ffmpeg_processes, current_config>>

\* the loop of stop_streaming (lines 145-155) goes on, the iterator being as
\* mn says.  A dict whose size differs from its size at the start of the
\* iteration raises RuntimeError.  After a concurrent change of the keys
\* that kept the size, what the iterator does depends on the layout of the
\* dict: it may raise, end, or yield an entry it has not yielded.  Entries
\* whose process has exited need no step.
StopLoop(mn, pr) ==
    IF Len(ffmpeg_processes) # mn.di_used
    THEN StopRaise(pr)
    ELSE IF ~mn.dirty
    THEN LET live == {j \in mn.di_pos..Len(ffmpeg_processes) :
                         IsAlive(pr, ffmpeg_processes[j].process)}
         IN  IF live = {}
             THEN StopClear(pr)
             ELSE StopVisit(mn, pr, CHOOSE j \in live : \A x \in live : j <= x)
    ELSE \/ StopRaise(pr)
         \/ StopClear(pr)
         \/ \E j \in DOMAIN ffmpeg_processes :
               /\ IsAlive(pr, ffmpeg_processes[j].process)
               /\ ffmpeg_processes[j].process \notin mn.seen
               /\ mn.di_pos <= mn.di_used
               /\ StopVisit(mn, pr, j)

\* stop_streaming, lines 141-145: the join returns and the iteration over
\* self.ffmpeg_processes.items() begins
StopJoin ==
    /\ UNCHANGED <<rtmp_destinations, resilient_vars, log_vars>>
    /\ main.pc = "stop_join"
    /\ JoinReturns(monitor_thread, mon)
    /\ StopLoop([main EXCEPT !.di_pos = 1, !.di_used = Len(ffmpeg_processes),
                             !.dirty = FALSE, !.seen = {}], proc)
    /\ UNCHANGED <<running, monitor_thread, twitch_online, mon>>

\* stop_streaming after time.sleep(2) (lines 151-153): kill the process if it
\* still runs, and the loop goes on
StopKill ==
    /\ UNCHANGED <<rtmp_destinations, resilient_vars, log_vars>>
    /\ main.pc = "stop_kill"
    /\ StopLoop([main EXCEPT !.process = None], Kill(proc, main.process))
    /\ UNCHANGED <<running, monitor_thread, twitch_online, mon>>

\* restart_streaming after time.sleep(3): the call of start_streaming
RestartStart ==
    /\ UNCHANGED <<rtmp_destinations, resilient_vars, log_vars>>
    /\ main.pc = "restart_sleep"
    /\ main' = [main EXCEPT !.pc = IF main.via = "service" THEN "bs_start"
                                   ELSE "start_check"]
    /\ UNCHANGED <<running, ffmpeg_processes, monitor_thread, current_config,
                   proc, twitch_online, mon>>

(***************************************************************************)
(* The monitor thread, _monitor_streams.  A step works on the record ms of *)
(* the thread's locals, the dict fp and the processes pr, and yields them  *)
(* as they are at the next blocking call.                                  *)
(***************************************************************************)
\* a monitor that takes every status for a change
AnyStatus(online, was_online) == TRUE

\* if twitch_online != twitch_was_online
SourceChanged(online, was_online) == online # was_online

\* consecutive_failures.get(dest_name, 0) + 1
CountFailure(c) == IF c < MaxFailCount THEN c + 1 ELSE MaxFailCount

\* if failures <= max_failures: immediate restart
RestartImmediately(failures) == failures <= max_failures

\* is the failure counter of a destination with this recorded process reset
\* (lines 238-241: if process.poll() is None)
Healthy(pr, p) == IsAlive(pr, p)

SeqRange(q) == {q[j] : j \in DOMAIN q}

\* the names of the dict whose process has exited, in dict order (lines 212-216)
DeadStreams(fp, pr) ==
    LET dead == SelectSeq(fp, LAMBDA e : ~IsAlive(pr, e.process))
    IN  [j \in DOMAIN dead |-> dead[j].name]

\* the scan for dead processes (lines 211-222); in_window is the value of
\* current_time % 60 < 5 in this tick
Scan(ms, fp, pr, in_window) ==
    LET dead_streams == DeadStreams(fp, pr) IN
    [ms EXCEPT !.k = 1, !.dead_streams = dead_streams, !.in_window = in_window,
               !.consecutive_failures =
                   [n \in Names |->
                      IF n \in SeqRange(dead_streams)
                      THEN CountFailure(ms.consecutive_failures[n])
                      ELSE ms.consecutive_failures[n]]]

\* the pass that resets the counters of running processes (lines 237-241),
\* then time.sleep(5)
HealthPass(ms, fp, pr) ==
    [ms EXCEPT !.pc = "top", !.k = 0, !.dead_streams = <<>>, !.in_window = FALSE,
               !.consecutive_failures =
                   [n \in Names |->
                      IF n \in Keys(fp) /\ Healthy(pr, ProcessOf(fp, n))
                      THEN 0
                      ELSE ms.consecutive_failures[n]]]

\* _restart_single_stream, lines 288-292: the first enabled destination of
\* that name (its index, 0 when there is none)
FindDest(destinations, dest_name) ==
    LET found == {j \in DOMAIN destinations :
                     destinations[j].name = dest_name /\ destinations[j].enabled}
    IN  IF found = {} THEN 0 ELSE CHOOSE j \in found : \A x \in found : j <= x

RECURSIVE Advance(_, _, _, _)
RECURSIVE BeginRestart(_, _, _, _)

\* _restart_single_stream(dead_streams[k]) from its entry to its first sleep
\* (lines 286-313); honoured: does a process that is sent terminate() exit
BeginRestart(ms, fp, pr, honoured) ==
    LET dest_name == ms.dead_streams[ms.k] IN
    IF FindDest(ms.destinations, dest_name) = 0
    THEN \* not found or disabled: return False
         Advance([ms EXCEPT !.k = @ + 1], fp, pr, honoured)
    ELSE IF dest_name \notin Keys(fp)
    THEN [ms |-> [ms EXCEPT !.pc = "rs_spawn"], fp |-> fp, pr |-> pr]
    ELSE LET old_process == ProcessOf(fp, dest_name) IN
         IF IsAlive(pr, old_process)
         THEN \* terminate(), then time.sleep(2)
              [ms |-> [ms EXCEPT !.pc = "rs_kill", !.process = old_process],
               fp |-> fp, pr |-> Terminate(pr, old_process, honoured)]
         ELSE \* del self.ffmpeg_processes[dest_name], then time.sleep(1)
              [ms |-> [ms EXCEPT !.pc = "rs_spawn"],
               fp |-> DictDel(fp, dest_name), pr |-> pr]

\* the restart loop over dead_streams (lines 225-235) from index k on, up to
\* the next blocking call: inside a _restart_single_stream, or the sleep that
\* ends the tick
Advance(ms, fp, pr, honoured) ==
    IF ms.k > Len(ms.dead_streams)
    THEN [ms |-> HealthPass(ms, fp, pr), fp |-> fp, pr |-> pr]
    ELSE LET dest_name == ms.dead_streams[ms.k]
             failures == ms.consecutive_failures[dest_name]
         IN  IF RestartImmediately(failures)
             THEN BeginRestart(ms, fp, pr, honoured)
             ELSE IF ms.in_window
             THEN BeginRestart([ms EXCEPT !.consecutive_failures[dest_name] = 0],
                               fp, pr, honoured)
             ELSE Advance([ms EXCEPT !.k = @ + 1], fp, pr, honoured)

\* the step of monitor m ends with locals, dict and processes as r says
MonStep(m, r) ==
    /\ UNCHANGED <<rtmp_destinations, resilient_vars, log_vars>>
    /\ mon' = [mon EXCEPT ![m] = r.ms]
    /\ ffmpeg_processes' = r.fp
    /\ main' = Touch(main, ffmpeg_processes, r.fp)
    /\ proc' = Reap(r.pr, r.fp, main', mon')
    /\ UNCHANGED <<running, monitor_thread, current_config, twitch_online>>

\* the tick from the scan on (lines 211-243).  current_time % 60 < 5 is an
\* input of the tick; it is read only for a destination beyond max_failures
Tick(m, ms, fp, pr) ==
    \E in_window, honoured \in BOOLEAN :
       LET scanned == Scan(ms, fp, pr, in_window) IN
       /\ (\A n \in SeqRange(scanned.dead_streams) :
              RestartImmediately(scanned.consecutive_failures[n])) => ~in_window
       /\ MonStep(m, Advance(scanned, fp, pr, honoured))

\* the loop head (while self.running), after time.sleep(5) or at thread
\* start; current_time - last_twitch_check > 20 holds at the first tick
\* (last_twitch_check = 0) and is an input afterwards
MonTop(m) ==
    /\ mon[m].pc = "top"
    /\ IF ~running
       THEN MonStep(m, [ms |-> MonNone, fp |-> ffmpeg_processes, pr |-> proc])
       ELSE \E due \in BOOLEAN :
               /\ mon[m].last_twitch_check = 0 => due
               /\ IF due
                  THEN MonStep(m, [ms |-> [mon[m] EXCEPT !.pc = "check"],
                                   fp |-> ffmpeg_processes, pr |-> proc])
                  ELSE Tick(m, mon[m], ffmpeg_processes, proc)

\* process.terminate() for every live process of the dict (lines 255-258);
\* the processes of H honour it
TerminateAll(pr, fp, H) ==
    [p \in Pids |-> IF p \in MappedPids(fp) THEN Terminate(pr, p, p \in H)[p] ELSE pr[p]]

\* check_twitch_stream returns (lines 199-209); on a change of status
\* _restart_all_streams begins: terminate, then time.sleep(3)
MonCheck(m) ==
    /\ mon[m].pc = "check"
    /\ IF SourceChanged(twitch_online, mon[m].twitch_was_online)
       THEN \E H \in SUBSET {p \in MappedPids(ffmpeg_processes) : IsAlive(proc, p)} :
               MonStep(m, [ms |-> [mon[m] EXCEPT !.pc = "ra_sleep",
                                                 !.twitch_online = twitch_online],
                           fp |-> ffmpeg_processes,
                           pr |-> TerminateAll(proc, ffmpeg_processes, H)])
       ELSE Tick(m, [mon[m] EXCEPT !.last_twitch_check = 1,
                                   !.twitch_online = twitch_online],
                 ffmpeg_processes, proc)

\* _restart_all_streams after time.sleep(3): self.ffmpeg_processes.clear(),
\* then get_twitch_stream_url is called
MonRAClear(m) ==
    /\ mon[m].pc = "ra_sleep"
    /\ MonStep(m, [ms |-> [mon[m] EXCEPT !.pc = "ra_fetch"], fp |-> <<>>, pr |-> proc])

\* the loop of _restart_all_streams (lines 273-276) from index i0 on: up to
\* the time.sleep(0.5) of the next _start_single_stream whose Popen succeeds,
\* or to the return; then lines 206-209 and the rest of the tick
RALoop(m, ms, fp, pr, i0) ==
    LET j == NextSpawn(ms.destinations, i0) IN
    IF j <= Len(ms.destinations) /\ FreePids(pr) # {}
    THEN MonStep(m, [ms |-> [ms EXCEPT !.pc = "ra_poll", !.i = j,
                                       !.process = NewPid(pr)],
                     fp |-> fp,
                     pr |-> Popen(pr, ms.destinations[j].name, ms.stale)])
    ELSE Tick(m, [ms EXCEPT !.pc = "top", !.i = 0, !.process = None,
                            !.twitch_was_online = ms.twitch_online,
                            !.consecutive_failures = [n \in Names |-> 0],
                            !.last_twitch_check = 1],
              fp, pr)

\* get_twitch_stream_url returns: the loop over the destinations begins
MonRAFetch(m) ==
    /\ mon[m].pc = "ra_fetch"
    /\ RALoop(m, mon[m], ffmpeg_processes, proc, 1)

\* _start_single_stream after time.sleep(0.5), called by _restart_all_streams
MonRAPoll(m) ==
    /\ mon[m].pc = "ra_poll"
    /\ LET dest == mon[m].destinations[mon[m].i] IN
       RALoop(m, [mon[m] EXCEPT !.process = None],
              IF IsAlive(proc, mon[m].process)
              THEN DictSet(ffmpeg_processes, dest.name, mon[m].process)
              ELSE ffmpeg_processes,
              proc, mon[m].i + 1)

\* _restart_single_stream after time.sleep(2): kill the old process if it is
\* still alive, then del self.ffmpeg_processes[dest_name]; a key that is gone
\* raises KeyError, caught at line 334: return False
MonRSKill(m) ==
    /\ mon[m].pc = "rs_kill"
    /\ LET dest_name == mon[m].dead_streams[mon[m].k]
           killed == Kill(proc, mon[m].process)
           ms == [mon[m] EXCEPT !.process = None]
       IN  IF dest_name \in Keys(ffmpeg_processes)
           THEN MonStep(m, [ms |-> [ms EXCEPT !.pc = "rs_spawn"],
                            fp |-> DictDel(ffmpeg_processes, dest_name),
                            pr |-> killed])
           ELSE \E honoured \in BOOLEAN :
                   MonStep(m, Advance([ms EXCEPT !.k = @ + 1], ffmpeg_processes,
                                      killed, honoured))

\* _restart_single_stream after time.sleep(1) and get_twitch_stream_url:
\* _start_single_stream up to time.sleep(0.5)
MonRSSpawn(m) ==
    /\ mon[m].pc = "rs_spawn"
    /\ LET dest_name == mon[m].dead_streams[mon[m].k]
           dest_config == mon[m].destinations[FindDest(mon[m].destinations, dest_name)]
       IN  IF Spawnable(dest_config) /\ FreePids(proc) # {}
           THEN MonStep(m, [ms |-> [mon[m] EXCEPT !.pc = "rs_poll",
                                                  !.process = NewPid(proc)],
                            fp |-> ffmpeg_processes,
                            pr |-> Popen(proc, dest_config.name, mon[m].stale)])
           ELSE \E honoured \in BOOLEAN :
                   MonStep(m, Advance([mon[m] EXCEPT !.k = @ + 1], ffmpeg_processes,
                                      proc, honoured))

\* a monitor whose restart loop ends with the first restart of the tick
MonRSPollBreak(m) ==
    /\ mon[m].pc = "rs_poll"
    /\ LET dest_name == mon[m].dead_streams[mon[m].k]
           fp == IF IsAlive(proc, mon[m].process)
                 THEN DictSet(ffmpeg_processes, dest_name, mon[m].process)
                 ELSE ffmpeg_processes
       IN  MonStep(m, [ms |-> HealthPass([mon[m] EXCEPT !.process = None], fp, proc),
                       fp |-> fp, pr |-> proc])

\* _start_single_stream after time.sleep(0.5), called by
\* _restart_single_stream; then the restart loop goes on
MonRSPoll(m) ==
    /\ mon[m].pc = "rs_poll"
    /\ LET dest_name == mon[m].dead_streams[mon[m].k] IN
       \E honoured \in BOOLEAN :
          MonStep(m, Advance([mon[m] EXCEPT !.k = @ + 1, !.process = None],
                             IF IsAlive(proc, mon[m].process)
                             THEN DictSet(ffmpeg_processes, dest_name, mon[m].process)
                             ELSE ffmpeg_processes,
                             proc, honoured))

(***************************************************************************)
(* The environment.                                                        *)
(***************************************************************************)
\* an ffmpeg process exits (on its own, or on the terminate signal)
ProcExit(p) ==
    /\ UNCHANGED <<rtmp_destinations, resilient_vars, log_vars>>
    /\ IsAlive(proc, p)
    /\ proc' = Reap([proc EXCEPT ![p] = DeadProc], ffmpeg_processes, main, mon)
    /\ UNCHANGED <<running, ffmpeg_processes, monitor_thread, current_config,
                   twitch_online, main, mon>>

\* the Twitch source goes online or offline
SourceFlip ==
    /\ UNCHANGED <<rtmp_destinations, resilient_vars, log_vars>>
    /\ twitch_online' = ~twitch_online
    /\ UNCHANGED <<running, ffmpeg_processes, monitor_thread, current_config,
                   proc, main, mon>>

(***************************************************************************)
(* The stored list of destinations: ConfigManager, and the sidebar of the  *)
(* Streamlit app (src/app.py), which runs between two calls of the control *)
(* thread.                                                                 *)
(***************************************************************************)
AppNames == Names \cup {""}
AppUrls == {UrlA, UrlB, <<>>}

\* the stored list becomes destinations
Store(destinations) ==
    /\ main.pc = "idle"
    /\ rtmp_destinations' = destinations
    /\ UNCHANGED <<streamer_vars, resilient_vars, log_vars>>

\* ConfigManager.add_rtmp_destination(name, url)
ConfigAdd(name, url) ==
    /\ Len(rtmp_destinations) < MaxDestinations
    /\ Store(add_rtmp_destination(rtmp_destinations, name, url, TRUE))

\* ConfigManager.remove_rtmp_destination(name)
ConfigRemove(name) ==
    /\ main.pc = "idle"
    /\ rtmp_destinations' = remove_rtmp_destination(rtmp_destinations, name)
    /\ UNCHANGED <<streamer_vars, resilient_vars, log_vars>>

\* the "Add Destination" button (lines 73-78): both fields filled in
AppAdd(new_name, new_url) ==
    /\ Len(rtmp_destinations) < MaxDestinations
    /\ new_name # "" /\ new_url # <<>>
    /\ Store(save_rtmp_destinations(
                Append(rtmp_destinations, Dest(new_name, new_url, TRUE))))

\* the delete button of destination i (lines 102-105)
AppDelete(i) ==
    /\ i \in DOMAIN rtmp_destinations
    /\ Store(save_rtmp_destinations(Pop(rtmp_destinations, i)))

\* the checkbox of destination i is clicked (lines 90-91), and the list is
\* saved at the end of the sidebar (line 107)
AppToggle(i) ==
    /\ "toggle" \in Scenario.kinds
    /\ i \in DOMAIN rtmp_destinations
    /\ Store(save_rtmp_destinations(
                [rtmp_destinations EXCEPT ![i].enabled = ~@]))

InitConfig ==
    /\ InitIn({"app"})
    /\ twitch_online
    /\ rtmp_destinations = <<>>
    /\ NoResilient

NextConfig ==
    \/ \E name \in Names, url \in {UrlA, UrlB} : ConfigAdd(name, url)
    \/ \E name \in Names : ConfigRemove(name)
    \/ \E new_name \in AppNames, new_url \in AppUrls : AppAdd(new_name, new_url)
    \/ \E i \in 1..MaxDestinations : AppDelete(i)
    \/ \E i \in 1..MaxDestinations : AppToggle(i)

SpecConfig == InitConfig /\ [][NextConfig]_vars

(***************************************************************************)
(* ResilientStreamer.  A step of the thread runs from one blocking call    *)
(* to the next: streamlink.streams, time.sleep, stderr.readline.           *)
(***************************************************************************)
Min(a, b) == IF a <= b THEN a ELSE b

\* a backoff that is doubled without the cap
Uncapped(backoff) == backoff * 2

\* backoff = min(backoff * 2, 60) (lines 33 and 89)
NextBackoff(backoff) == Min(backoff * 2, max_backoff)

\* a test that reads every Event instead of the thread's own
AnyStopRequested(ev, st) == \E e \in Events : ev[e]

\* self.stop_event.is_set()
StopRequested(ev, st) == ev[st.stop_event]

\* the step of thread s ends with its locals as st says
RSStep(s, st) ==
    /\ streamers' = [streamers EXCEPT ![s] = st]
    /\ UNCHANGED <<streamer_vars, rtmp_destinations, stop_events, log_vars>>

\* the loop head, line 26: leave the loop when the event is set, else call
\* streamlink.streams
LoopHead(st) ==
    IF StopRequested(stop_events, st)
    THEN [st EXCEPT !.pc = "done"]
    ELSE [st EXCEPT !.pc = "fetch"]

\* lines 84-88 after the finally clause: leave the loop when the event is
\* set, else time.sleep(backoff)
AfterFinally(st) ==
    IF StopRequested(stop_events, st)
    THEN [st EXCEPT !.pc = "done", !.after = "none"]
    ELSE [st EXCEPT !.pc = "restart_sleep", !.after = "none"]

\* the head of the inner loop, lines 64-68: _terminate_proc when the event
\* is set (terminate, then time.sleep(1)), else stderr.readline()
InnerHead(st) ==
    IF StopRequested(stop_events, st)
    THEN [st EXCEPT !.pc = "term", !.after = "loop"]
    ELSE [st EXCEPT !.pc = "readline"]

\* the thread begins to sleep for backoff seconds in this step
BeginsWait(s) ==
    /\ streamers[s].pc \notin {"retry_sleep", "restart_sleep"}
    /\ streamers'[s].pc \in {"retry_sleep", "restart_sleep"}

\* self.proc = subprocess.Popen(...), line 60: the process the attribute
\* referred to before, if it is alive, is no longer referred to
Spawn(st) ==
    [st EXCEPT !.proc = "alive",
               !.orphans = IF st.proc = "alive" THEN @ + 1 ELSE @]

\* a _terminate_proc that only forgets the process
DropReference(st) ==
    [st EXCEPT !.proc = "none",
               !.orphans = IF st.proc = "alive" THEN @ + 1 ELSE @]

\* _terminate_proc after time.sleep(1), lines 96-100: kill() if poll() is
\* None, then self.proc = None
terminate_proc(st) == [st EXCEPT !.proc = "none"]

\* Thread.start(): run() begins, backoff = 1.0
RSRun(s) ==
    /\ streamers[s].pc = "new"
    /\ RSStep(s, LoopHead([streamers[s] EXCEPT !.backoff = initial_backoff]))

\* streamlink.streams returns or raises (lines 29-60): no "best" stream,
\* time.sleep(backoff); a live stream, Popen; an exception (of streams or of
\* Popen), the except and finally clauses with self.proc = None
RSFetch(s) ==
    /\ streamers[s].pc = "fetch"
    /\ \E outcome \in {"offline", "live", "error"} :
          LET st == [streamers[s] EXCEPT !.ran = FALSE] IN
          RSStep(s, CASE outcome = "offline" ->
                           [st EXCEPT !.pc = "retry_sleep"]
                      [] outcome = "live" ->
                           InnerHead(Spawn(st))
                      [] outcome = "error" ->
                           AfterFinally(st))
    /\ BeginsWait(s) => streamers[s].waits < MaxWaits

\* time.sleep(backoff) of line 32 ends: the backoff is doubled, continue
\* runs the finally clause (self.proc is None) and the loop head
RSRetryWake(s) ==
    /\ streamers[s].pc = "retry_sleep"
    /\ RSStep(s, LoopHead([streamers[s] EXCEPT
                              !.waits = @ + 1, !.waited = streamers[s].backoff,
                              !.backoff = NextBackoff(@)]))

\* stderr.readline() returns: a line of a live process, or "" at the end of
\* the output of one that has exited (lines 68-76); poll(), then
\* time.sleep(0.1), or break and the _terminate_proc of the finally clause
RSReadline(s) ==
    /\ streamers[s].pc = "readline"
    /\ RSStep(s, IF streamers[s].proc = "alive"
                 THEN [streamers[s] EXCEPT !.pc = "tick_sleep", !.ran = TRUE]
                 ELSE [streamers[s] EXCEPT !.pc = "term", !.after = "finally"])

\* time.sleep(0.1) ends: the head of the inner loop
RSLoopWake(s) ==
    /\ streamers[s].pc = "tick_sleep"
    /\ RSStep(s, InnerHead(streamers[s]))

\* _terminate_proc after time.sleep(1) (lines 96-100): kill() if the
\* process is still alive, self.proc = None; then, from the inner loop, the
\* break and the finally clause, and lines 84-88
RSTerminated(s) ==
    /\ streamers[s].pc = "term"
    /\ RSStep(s, AfterFinally(terminate_proc(streamers[s])))
    /\ BeginsWait(s) => streamers[s].waits < MaxWaits

\* time.sleep(backoff) of line 88 ends: the backoff is doubled, loop head
RSRestartWake(s) ==
    /\ streamers[s].pc = "restart_sleep"
    /\ RSStep(s, LoopHead([streamers[s] EXCEPT
                              !.waits = @ + 1, !.waited = streamers[s].backoff,
                              !.backoff = NextBackoff(@)]))

\* the ffmpeg process of thread s exits, on its own or on terminate()
RSProcExit(s) ==
    /\ streamers[s].proc = "alive"
    /\ RSStep(s, [streamers[s] EXCEPT !.proc = "dead"])

\* the owner of Event e calls e.set()
SetStop(e) ==
    /\ ~stop_events[e]
    /\ stop_events' = [stop_events EXCEPT ![e] = TRUE]
    /\ UNCHANGED <<streamer_vars, rtmp_destinations, streamers, log_vars>>

\* the Event the caller creates for job s: each job has a cancellation
\* signal of its own
OwnEvent(s) == s

\* the threads are constructed, each with the Event of its job
InitResilient ==
    /\ InitIn({"calls"})
    /\ main.via = "streamer"
    /\ twitch_online
    /\ rtmp_destinations = <<>>
    /\ streamers = [s \in Streamers |-> [NewStreamer EXCEPT !.stop_event = OwnEvent(s)]]
    /\ stop_events = [e \in Events |-> FALSE]

NextResilient ==
    \/ \E s \in Streamers : RSRun(s)
    \/ \E s \in Streamers : RSFetch(s)
    \/ \E s \in Streamers : RSRetryWake(s)
    \/ \E s \in Streamers : RSReadline(s)
    \/ \E s \in Streamers : RSLoopWake(s)
    \/ \E s \in Streamers : RSTerminated(s)
    \/ \E s \in Streamers : RSRestartWake(s)
    \/ \E s \in Streamers : RSProcExit(s)
    \/ \E e \in Events : SetStop(e)

SpecResilient == InitResilient /\ [][NextResilient]_vars

\* the steps thread s takes by itself: every step but the return of
\* stderr.readline() (line 68) for a live process, which waits for the
\* process to write a line
ThreadStep(s) ==
    \/ RSRun(s)
    \/ RSFetch(s)
    \/ RSRetryWake(s)
    \/ (streamers[s].proc # "alive" /\ RSReadline(s))
    \/ RSLoopWake(s)
    \/ RSTerminated(s)
    \/ RSRestartWake(s)

\* the threads are scheduled; a live process need not write
SpecResilientFair ==
    /\ InitResilient
    /\ [][NextResilient]_vars
    /\ \A s \in Streamers : WF_vars(ThreadStep(s))

(***************************************************************************)
(* The program.                                                            *)
(***************************************************************************)
Next ==
    \/ \E destinations \in Inputs : CallStart(destinations)
    \/ BSStart
    \/ StartCheck
    \/ StartFetch
    \/ StartPoll
    \/ CallStop
    \/ \E destinations \in Inputs : CallRestart(destinations)
    \/ StopJoin
    \/ StopKill
    \/ RestartStart
    \/ \E m \in Monitors : MonTop(m)
    \/ \E m \in Monitors : MonCheck(m)
    \/ \E m \in Monitors : MonRAClear(m)
    \/ \E m \in Monitors : MonRAFetch(m)
    \/ \E m \in Monitors : MonRAPoll(m)
    \/ \E m \in Monitors : MonRSKill(m)
    \/ \E m \in Monitors : MonRSSpawn(m)
    \/ \E m \in Monitors : MonRSPoll(m)
    \/ \E p \in Pids : ProcExit(p)
    \/ SourceFlip
    \/ \E i \in 1..MaxDestinations : AppToggle(i)

Spec == Init /\ [][Next]_vars

\* a step of a monitor thread
MonitorNext ==
    \E m \in Monitors :
        \/ MonTop(m)
        \/ MonCheck(m)
        \/ MonRAClear(m)
        \/ MonRAFetch(m)
        \/ MonRAPoll(m)
        \/ MonRSKill(m)
        \/ MonRSSpawn(m)
        \/ MonRSPoll(m)

\* one start_streaming and the monitor thread it starts, which is scheduled
\* again and again: every sleep and every call it makes returns
\* the calls made by the caller of stop_streaming: at most a start and a stop
StopCalls == 2

\* the steps of stop_streaming after the call
StopNext == StopJoin \/ StopKill

\* the steps a monitor thread takes by itself: every step but the return of
\* a call that waits for streamlink (check_twitch_stream,
\* get_twitch_stream_url)
MonitorWakes ==
    \E m \in Monitors : \/ MonTop(m) \/ MonRAClear(m) \/ MonRAPoll(m)
                        \/ MonRSKill(m) \/ MonRSPoll(m)

\* stop_streaming called on the RTMPStreamer, or through BackgroundService
\* (stop_streaming, shutdown), with the threads scheduled; streamlink need
\* not return
InitStop ==
    /\ InitIn({"calls"})
    /\ rtmp_destinations = <<>>
    /\ NoResilient

NextStop ==
    \/ (main.calls < StopCalls /\ CallStart(<<Dest("A", UrlA, TRUE)>>))
    \/ BSStart
    \/ StartCheck
    \/ StartFetch
    \/ StartPoll
    \/ (main.calls < StopCalls /\ CallStop)
    \/ StopJoin
    \/ StopKill
    \/ \E m \in Monitors : MonTop(m)
    \/ \E m \in Monitors : MonCheck(m)
    \/ \E m \in Monitors : MonRAClear(m)
    \/ \E m \in Monitors : MonRAFetch(m)
    \/ \E m \in Monitors : MonRAPoll(m)
    \/ \E m \in Monitors : MonRSSpawn(m)
    \/ \E m \in Monitors : MonRSPoll(m)
    \/ \E p \in Pids : ProcExit(p)
    \/ SourceFlip

SpecStop ==
    /\ InitStop
    /\ [][NextStop]_vars
    /\ WF_vars(StopNext)
    /\ WF_vars(MonitorWakes)

InitTick ==
    /\ InitIn({"tick"})
    /\ rtmp_destinations = <<>>
    /\ NoResilient

NextTick ==
    \/ \E destinations \in Inputs : CallStart(destinations)
    \/ BSStart
    \/ StartCheck
    \/ StartFetch
    \/ StartPoll
    \/ \E m \in Monitors : MonTop(m)
    \/ \E m \in Monitors : MonCheck(m)
    \/ \E m \in Monitors : MonRAClear(m)
    \/ \E m \in Monitors : MonRAFetch(m)
    \/ \E m \in Monitors : MonRAPoll(m)
    \/ \E m \in Monitors : MonRSSpawn(m)
    \/ \E m \in Monitors : MonRSPoll(m)
    \/ \E p \in Pids : ProcExit(p)
    \/ SourceFlip

SpecTick == InitTick /\ [][NextTick]_vars /\ WF_vars(MonitorNext)

\* one start_streaming while the Twitch source is offline and stays offline:
\* get_twitch_stream_url returns nothing (the placeholder is used, lines
\* 28-31) and every check_twitch_stream reports offline
InitOffline ==
    /\ InitIn({"tick"})
    /\ ~twitch_online
    /\ rtmp_destinations = <<>>
    /\ NoResilient

NextOffline ==
    \/ \E destinations \in Inputs : CallStart(destinations)
    \/ BSStart
    \/ StartCheck
    \/ StartFetch
    \/ StartPoll
    \/ \E m \in Monitors : MonTop(m)
    \/ \E m \in Monitors : MonCheck(m)
    \/ \E m \in Monitors : MonRAClear(m)
    \/ \E m \in Monitors : MonRAFetch(m)
    \/ \E m \in Monitors : MonRAPoll(m)
    \/ \E m \in Monitors : MonRSSpawn(m)
    \/ \E m \in Monitors : MonRSPoll(m)
    \/ \E p \in Pids : ProcExit(p)

SpecOffline == InitOffline /\ [][NextOffline]_vars

\* BackgroundService.start_streaming called twice, with one destination
\* each time
InitAgain ==
    /\ InitIn({"again"})
    /\ rtmp_destinations = <<>>
    /\ NoResilient

NextAgain ==
    \/ \E destinations \in Inputs : CallStart(destinations)
    \/ BSStart
    \/ StartCheck
    \/ StartFetch
    \/ StartPoll
    \/ \E m \in Monitors : MonTop(m)
    \/ \E m \in Monitors : MonCheck(m)
    \/ \E m \in Monitors : MonRAClear(m)
    \/ \E m \in Monitors : MonRAFetch(m)
    \/ \E m \in Monitors : MonRAPoll(m)
    \/ \E m \in Monitors : MonRSSpawn(m)
    \/ \E m \in Monitors : MonRSPoll(m)
    \/ \E p \in Pids : ProcExit(p)
    \/ SourceFlip

SpecAgain == InitAgain /\ [][NextAgain]_vars

(***************************************************************************)
(* The in-memory log of BackgroundService.                                 *)
(***************************************************************************)
\* self.max_logs = 100
max_logs == 100

\* the _add_log calls followed
MaxLogged == 130

\* a cut that keeps the oldest max_logs entries
KeepFirst(l) ==
    IF Len(l) > max_logs THEN SubSeq(l, 1, max_logs) ELSE l

\* if len(self.logs) > self.max_logs: self.logs = self.logs[-self.max_logs:]
Truncate(l) ==
    IF Len(l) > max_logs THEN SubSeq(l, Len(l) - max_logs + 1, Len(l)) ELSE l

\* _add_log: self.logs.append(log_entry), then the cut
add_log(l, log_entry) == Truncate(Append(l, log_entry))

\* get_logs(): self.logs.copy()
get_logs == logs

\* an operation of the service calls _add_log(message, level)
AddLog ==
    /\ logged < MaxLogged
    /\ logged' = logged + 1
    /\ logs' = add_log(logs, logged + 1)
    /\ UNCHANGED <<streamer_vars, rtmp_destinations, resilient_vars>>

\* _background_service_loop: _cleanup_logs()
CleanupLogs ==
    /\ logs' = Truncate(logs)
    /\ UNCHANGED <<streamer_vars, rtmp_destinations, resilient_vars, logged>>

InitLogs ==
    /\ InitIn({"calls"})
    /\ main.via = "service"
    /\ twitch_online
    /\ rtmp_destinations = <<>>
    /\ NoResilient

NextLogs == AddLog \/ CleanupLogs

SpecLogs == InitLogs /\ [][NextLogs]_vars

(***************************************************************************)
(* Observations.                                                           *)
(***************************************************************************)
\* get_stream_status(): one entry per key of the dict, running = the process
\* has not exited
get_stream_status(fp, pr) ==
    [j \in DOMAIN fp |-> [name |-> fp[j].name,
                          running |-> IsAlive(pr, fp[j].process)]]

\* the thread is inside _restart_single_stream
InRestartSingle(ms) == ms.pc \in {"rs_kill", "rs_spawn", "rs_poll"}

\* the thread is inside _restart_all_streams
InRestartAll(ms) == ms.pc \in {"ra_sleep", "ra_fetch", "ra_poll"}

\* the control thread is inside start_streaming
InStart(mn) == mn.pc \in {"bs_start", "start_check", "start_fetch", "start_poll"}

\* the last call to return was stop_streaming, and no call has been made since
StopReturned == main.pc = "idle" /\ main.last \in {"stop", "stop2"}

\* no process begins to run and no thread begins to exist in the step
NothingStarted ==
    /\ \A p \in Pids : IsAlive(proc', p) => IsAlive(proc, p)
    /\ \A m \in Monitors : is_alive(mon', m) => is_alive(mon, m)
    /\ monitor_thread' = monitor_thread

(***************************************************************************)
(* Properties.                                                             *)
(***************************************************************************)
\* C1: after stop_streaming has returned, get_stream_status has no entry
\* with running = true, whatever the monitor thread was doing during the stop.
C1_StoppedShowsNoLiveProcess ==
    StopReturned =>
        \A j \in DOMAIN ffmpeg_processes :
            ~get_stream_status(ffmpeg_processes, proc)[j].running

\* C2: once stop_streaming has returned and no monitor thread is left, no
\* process spawned by the RTMPStreamer is still running.
C2_NoOrphanAfterStop ==
    (StopReturned /\ \A m \in Monitors : ~is_alive(mon, m)) =>
        \A p \in Pids : ~IsAlive(proc, p)

\* C3: a start_streaming whose list has no enabled destination spawns no
\* process, starts no monitor thread, leaves running false and unchanged,
\* records nothing in the dict, and returns False.
C3_EmptyStartDoesNothing ==
    [][(/\ InStart(main)
        /\ EnabledOf(main.destinations) = <<>>
        /\ main' # main)
       => /\ NothingStarted
          /\ running' = running
          /\ ffmpeg_processes' = ffmpeg_processes
          /\ main.pc \in {"start_fetch", "start_poll"} => ~running
          /\ main'.pc = "idle" => ~main'.result
          /\ main'.pc # "start_poll"]_vars

\* a start_streaming with only a disabled destination has passed the test of
\* running and is about to return
C3_Witness ==
    /\ main.pc = "start_fetch"
    /\ main.op = "start"
    /\ Len(main.destinations) = 1
    /\ EnabledOf(main.destinations) = <<>>
    /\ ~running

\* C4: start_streaming on a running job returns False in its next step and
\* changes nothing: no process is spawned, no thread started, and the dict,
\* the processes and the threads are as they were.
C4_StartWhileRunningRejected ==
    [][(/\ main.pc = "start_check"
        /\ running
        /\ main' # main)
       => /\ main'.pc = "idle"
          /\ main'.last = "start"
          /\ ~main'.result
          /\ running'
          /\ UNCHANGED <<ffmpeg_processes, monitor_thread, proc, mon>>]_vars

\* a direct start_streaming has returned False while the job runs with a
\* live process
C4_Witness ==
    /\ main.pc = "idle"
    /\ main.via = "streamer"
    /\ main.last = "start"
    /\ ~main.result
    /\ running
    /\ \E j \in DOMAIN ffmpeg_processes : IsAlive(proc, ffmpeg_processes[j].process)

\* C5: a stop_streaming that follows another stop_streaming, or that is the
\* first call, returns True and leaves what one call leaves: an empty dict
\* and no running process.
C5_StopIdempotent ==
    (main.pc = "idle" /\ main.last = "stop2") =>
        /\ main.result
        /\ ffmpeg_processes = <<>>
        /\ \A p \in Pids : ~IsAlive(proc, p)

\* C6: a step of a monitor thread in which it restarts dead destinations one
\* by one leaves the entry and the process of every destination it has not
\* found dead as they were.
C6_RestartLeavesOthers ==
    [][\A m \in Monitors :
          (/\ mon'[m] # mon[m]
           /\ mon'[m].stale = mon[m].stale
           /\ is_alive(mon, m)
           /\ ~InRestartAll(mon[m])
           /\ InRestartSingle(mon[m]) \/ InRestartSingle(mon'[m]))
          => LET dead_streams == IF InRestartSingle(mon[m])
                                 THEN mon[m].dead_streams
                                 ELSE mon'[m].dead_streams
             IN  \A n \in Names \ SeqRange(dead_streams) :
                    /\ n \in Keys(ffmpeg_processes') <=> n \in Keys(ffmpeg_processes)
                    /\ n \in Keys(ffmpeg_processes) =>
                          /\ ProcessOf(ffmpeg_processes', n) = ProcessOf(ffmpeg_processes, n)
                          /\ proc'[ProcessOf(ffmpeg_processes, n)]
                                = proc[ProcessOf(ffmpeg_processes, n)]]_vars

\* a monitor has restarted A, whose process is not yet polled, while the
\* process recorded for B runs
C6_Witness ==
    \E m \in Monitors :
        /\ mon[m].pc = "rs_poll"
        /\ mon[m].dead_streams = <<"A">>
        /\ "B" \in Keys(ffmpeg_processes)
        /\ IsAlive(proc, ProcessOf(ffmpeg_processes, "B"))

\* C7: a monitor thread is inside _restart_all_streams exactly while the
\* status it observed last differs from the status it acted on last: an
\* observed change starts one global restart, which ends with the change
\* recorded, and no per-destination restart is made while a change is pending.
C7_OneGlobalRestartPerChange ==
    \A m \in Monitors :
        is_alive(mon, m) =>
            (InRestartAll(mon[m]) <=> mon[m].twitch_online # mon[m].twitch_was_online)

\* a monitor that had acted on "offline" has seen the source online again
\* and is restarting all destinations
C7_Witness ==
    \E m \in Monitors :
        /\ mon[m].pc = "ra_poll"
        /\ mon[m].twitch_online
        /\ ~mon[m].twitch_was_online

\* C8: during restart_streaming no process of an earlier generation runs
\* together with a process of the generation being started.
C8_NoTwoGenerations ==
    main.op = "restart" =>
        ~(/\ \E p \in Pids : IsAlive(proc, p) /\ proc[p].old
          /\ \E p \in Pids : IsAlive(proc, p) /\ ~proc[p].old)

\* C9: no immediate restart is under way for a destination whose counter of
\* consecutive failures has reached max_failures (a restart on the cooldown
\* cadence sets the counter to zero first).
C9_NoImmediateRestartAfterThird ==
    \A m \in Monitors :
        InRestartSingle(mon[m]) =>
            mon[m].consecutive_failures[mon[m].dead_streams[mon[m].k]] < max_failures

\* C10: at the end of a tick the counter of a destination with a running
\* process is zero if the destination was not found dead in that tick, and
\* is left as it was if the destination was restarted in that tick.
C10_ResetOnlyAfterFullInterval ==
    [][\A m \in Monitors :
          (/\ mon'[m] # mon[m]
           /\ mon'[m].stale = mon[m].stale
           /\ is_alive(mon, m)
           /\ mon'[m].pc = "top")
          => \A n \in Keys(ffmpeg_processes') :
                IsAlive(proc', ProcessOf(ffmpeg_processes', n)) =>
                   IF InRestartSingle(mon[m]) /\ n \in SeqRange(mon[m].dead_streams)
                   THEN mon'[m].consecutive_failures[n] = mon[m].consecutive_failures[n]
                   ELSE mon'[m].consecutive_failures[n] = 0]_vars

\* the job runs undisturbed: start_streaming has returned True, no call has
\* been made since, and m is the only monitor thread
RunningUnder(m) ==
    /\ running
    /\ main.pc = "idle"
    /\ main.last = "start"
    /\ main.result
    /\ monitor_thread = m
    /\ \A o \in Monitors : is_alive(mon, o) <=> o = m

\* C11: while the job runs, an enabled destination that the monitor has
\* counted as failed and that has not recovered is still listed by
\* get_stream_status when the monitor's tick has ended.
C11_FailingStaysListed ==
    \A m \in Monitors :
        (RunningUnder(m) /\ mon[m].pc = "top") =>
            \A n \in Names :
                (/\ FindDest(mon[m].destinations, n) # 0
                 /\ mon[m].consecutive_failures[n] > 0)
                => \E j \in DOMAIN ffmpeg_processes :
                      get_stream_status(ffmpeg_processes, proc)[j].name = n

\* the dict holds a process for destination n, and that process runs
TrackedLive(n) ==
    n \in Keys(ffmpeg_processes) /\ IsAlive(proc, ProcessOf(ffmpeg_processes, n))

\* C12: no tracked live process while the job is stopped and no call is in
\* progress; while the job runs, a tracked live process belongs to an enabled
\* destination, and between two ticks of the monitor every enabled
\* destination with a well-formed URL has at least an entry in the dict (a
\* process that has just exited waits there for the next tick's restart).
C12_ProcessIffEnabledAndRunning ==
    /\ (main.pc = "idle" /\ ~running) => \A n \in Names : ~TrackedLive(n)
    /\ \A m \in Monitors :
          RunningUnder(m) =>
              \A n \in Names :
                  /\ TrackedLive(n) => FindDest(mon[m].destinations, n) # 0
                  /\ (/\ mon[m].pc = "top"
                      /\ FindDest(mon[m].destinations, n) # 0
                      /\ Spawnable(mon[m].destinations[FindDest(mon[m].destinations, n)]))
                     => n \in Keys(ffmpeg_processes)

RECURSIVE Pow2(_)
Pow2(k) == IF k = 0 THEN 1 ELSE 2 * Pow2(k - 1)

\* the thread is inside a time.sleep(backoff)
Waiting(st) == st.pc \in {"retry_sleep", "restart_sleep"}

\* C13: the wait a ResilientStreamer thread is in, after k waits have ended,
\* lasts min(2^k, 60) seconds: 1 s for the first, never shorter than the wait
\* before it, never longer than 60 s.
C13_BackoffSchedule ==
    \A s \in Streamers :
        Waiting(streamers[s]) =>
            /\ streamers[s].backoff = Min(initial_backoff * Pow2(streamers[s].waits), 60)
            /\ streamers[s].waits = 0 => streamers[s].backoff = 1
            /\ streamers[s].backoff >= streamers[s].waited
            /\ streamers[s].backoff <= 60

\* a thread is in its eighth wait, which is the second of 60 s
C13_Witness ==
    \E s \in Streamers :
        /\ Waiting(streamers[s])
        /\ streamers[s].waits = 7
        /\ streamers[s].waited = 60

\* the destination dicts held by the call in progress and by the monitor
\* threads
DestsInUse ==
    SeqRange(main.destinations)
        \cup UNION {SeqRange(mon[m].destinations) : m \in Monitors}

\* C14: no process runs for a destination whose URL is malformed, whether
\* it would have been spawned by start_streaming, by _restart_single_stream
\* or by _restart_all_streams.
C14_MalformedNeverSpawned ==
    \A p \in Pids :
        IsAlive(proc, p) =>
            \A d \in DestsInUse : d.name = proc[p].name => ~Malformed(d.url)

\* C15: a ResilientStreamer thread that has found the source not live has a
\* running process for its destinations all the same.
C15_OfflineStillStreams ==
    \A s \in Streamers :
        streamers[s].pc = "retry_sleep" => streamers[s].proc = "alive"

\* C16: a start_streaming that has passed the test of running and whose list
\* holds an enabled destination with a URL that passes validate_rtmp_url
\* does not return False.
C16_RuntimeFailureNotReported ==
    [][(/\ main.pc \in {"start_fetch", "start_poll"}
        /\ main'.pc = "idle"
        /\ \E j \in DOMAIN main.destinations :
              main.destinations[j].enabled /\ Spawnable(main.destinations[j]))
       => main'.result]_vars

\* C17: a ResilientStreamer thread whose own Event is not set has not left
\* its loop and is not terminating its process on a stop request, whatever
\* Events of other threads are set.
C17_StopIsPerJob ==
    \A s \in Streamers :
        ~stop_events[streamers[s].stop_event] =>
            /\ streamers[s].pc # "done"
            /\ ~(streamers[s].pc = "term" /\ streamers[s].after = "loop")

\* one thread has been stopped and has exited, another still streams
C17_Witness ==
    \E s, t \in Streamers :
        /\ streamers[s].stop_event # streamers[t].stop_event
        /\ stop_events[streamers[s].stop_event]
        /\ streamers[s].pc = "done"
        /\ ~stop_events[streamers[t].stop_event]
        /\ streamers[t].pc = "readline"
        /\ streamers[t].proc = "alive"

\* C18: no two destinations of the stored list have the same name.
C18_NamesUnique ==
    \A i, j \in DOMAIN rtmp_destinations :
        rtmp_destinations[i].name = rtmp_destinations[j].name => i = j

\* the monitor thread m spawns a process for destination n in this step
MonitorSpawns(m, n) ==
    /\ mon'[m] # mon[m]
    /\ \/ /\ mon'[m].pc = "rs_poll"
          /\ mon'[m].dead_streams[mon'[m].k] = n
       \/ /\ mon'[m].pc = "ra_poll"
          /\ mon'[m].destinations[mon'[m].i].name = n

\* C19: a click on a checkbox changes no process and no entry of the dict,
\* and the monitor spawns no process for a destination that is stored as
\* disabled.
C19_ToggleOnlyAffectsRestart ==
    [][/\ (rtmp_destinations' # rtmp_destinations /\ main' = main)
            => UNCHANGED <<proc, ffmpeg_processes, running, mon>>
       /\ \A m \in Monitors, n \in Names :
            MonitorSpawns(m, n) =>
                ~\E j \in DOMAIN rtmp_destinations :
                     /\ rtmp_destinations[j].name = n
                     /\ ~rtmp_destinations[j].enabled]_vars

\* C20: a monitor thread spawns a process only while running is true.
C20_NoSpawnAfterStop ==
    [][\A m \in Monitors, n \in Names : MonitorSpawns(m, n) => running]_vars

\* C21: while the job runs undisturbed and its monitor is spawning the
\* replacement processes of a global restart, every running process is one
\* of the replacements: the one just spawned or one recorded since the dict
\* was cleared.
C21_OldGenerationGone ==
    \A m \in Monitors :
        (RunningUnder(m) /\ mon[m].pc = "ra_poll") =>
            \A p \in Pids :
                IsAlive(proc, p) =>
                    p = mon[m].process \/ p \in MappedPids(ffmpeg_processes)

\* destination n is enabled with a URL that passes validate_rtmp_url in the
\* list of the running job's monitor m, and no recorded process runs for it
NeedsStart(m, n) ==
    /\ RunningUnder(m)
    /\ FindDest(mon[m].destinations, n) # 0
    /\ Spawnable(mon[m].destinations[FindDest(mon[m].destinations, n)])
    /\ ~TrackedLive(n)

\* the monitor m is making a start attempt that covers destination n: a
\* _restart_single_stream for n, or a _restart_all_streams
Attempting(m, n) ==
    \/ InRestartAll(mon[m])
    \/ InRestartSingle(mon[m]) /\ mon[m].dead_streams[mon[m].k] = n

\* C22: while the job runs, an enabled destination without a live process is
\* eventually given a start attempt by the monitor.
C22_EventuallyRetried ==
    \A m \in Monitors, n \in Names : NeedsStart(m, n) ~> Attempting(m, n)

\* the monitor m counts destination n as failing: more than max_failures
\* consecutive failures
Failing(m, n) ==
    /\ is_alive(mon, m)
    /\ mon[m].consecutive_failures[n] > max_failures

\* C23: the counter of a destination that the monitor counts as failing is
\* lowered only in a step in which the monitor begins the retry of that
\* destination, or makes a global restart.
C23_ResetOnlyAtRetry ==
    [][\A m \in Monitors, n \in Names :
          (/\ Failing(m, n)
           /\ is_alive(mon', m)
           /\ ~mon'[m].stale
           /\ mon'[m].consecutive_failures[n] < mon[m].consecutive_failures[n])
          => \/ Attempting(m, n)'
             \/ InRestartAll(mon[m])]_vars

\* the restart loop of the tick calls _restart_single_stream for the j-th dead
\* stream (line 227, or line 231 in the cooldown window), and the call finds
\* its destination
Eligible(ms, j) ==
    /\ \/ RestartImmediately(ms.consecutive_failures[ms.dead_streams[j]])
       \/ ms.in_window
    /\ FindDest(ms.destinations, ms.dead_streams[j]) # 0

\* C24: while a monitor is inside the restart of one dead stream, every later
\* eligible dead stream of the same tick is still ahead after any step,
\* however the restart ends: the loop never leaves the tick or passes over
\* it; and a tick enters the loop at its first eligible dead stream.
C24_NoDestinationBlocksAnother ==
    [][\A m \in Monitors :
          /\ InRestartSingle(mon[m]) =>
                \A j \in DOMAIN mon[m].dead_streams :
                    (j > mon[m].k /\ Eligible(mon[m], j)) =>
                        /\ InRestartSingle(mon'[m])
                        /\ mon'[m].dead_streams = mon[m].dead_streams
                        /\ mon'[m].k <= j
          /\ (~InRestartSingle(mon[m]) /\ InRestartSingle(mon'[m])) =>
                \A j \in DOMAIN mon'[m].dead_streams :
                    j < mon'[m].k => ~Eligible(mon'[m], j)]_vars

\* the monitor is inside the restart of the second dead stream of a tick
\* after the restart of the first one failed
C24_Witness ==
    \E m \in Monitors :
        /\ InRestartSingle(mon[m])
        /\ Len(mon[m].dead_streams) = 2
        /\ mon[m].k = 2
        /\ mon[m].dead_streams[1] \notin Keys(ffmpeg_processes)

\* C25: when the thread sleeps before a restart after a process that has
\* run (it was found alive by a poll of the inner loop), the delay is the
\* base value.
C25_DelayBackAtBase ==
    \A s \in Streamers :
        (streamers[s].pc = "restart_sleep" /\ streamers[s].ran) =>
            streamers[s].backoff = initial_backoff

\* C26: once the stop event of a thread is set, the thread eventually exits,
\* its process terminated, whether or not the process writes another line.
C26_StopEventuallyExits ==
    \A s \in Streamers :
        stop_events[streamers[s].stop_event] ~>
            (streamers[s].pc = "done" /\ streamers[s].proc = "none")

\* the control thread is inside stop_streaming
InStop(mn) == mn.pc \in {"stop_join", "stop_kill"}

\* C27: a call of stop_streaming (on its own, inside restart_streaming, or
\* through BackgroundService) always returns, whether or not the monitor
\* thread ever exits; and the step after the grace period leaves the
\* process it waited for dead and either returns or goes on to a process not
\* visited before.
C27_StopAlwaysReturns ==
    /\ InStop(main) ~> ~InStop(main)
    /\ [][(main.pc = "stop_kill" /\ (main'.pc # main.pc \/ main'.seen # main.seen)) =>
             /\ ~IsAlive(proc', main.process)
             /\ InStop(main') => (main.seen \subseteq main'.seen /\ main'.seen # main.seen)]_vars

\* stop_streaming has returned True, and the monitor thread it gave up
\* waiting for is still alive, inside a call of streamlink
C27_Witness ==
    /\ StopReturned
    /\ main.result
    /\ \E m \in Monitors : is_alive(mon, m) /\ InLongCall(mon, m)

\* C28: a thread never has a live process besides the one self.proc refers
\* to, and it has no process at all when it is about to spawn one, while it
\* waits before a restart, and after it has exited.
C28_AtMostOneLiveProcess ==
    \A s \in Streamers :
        /\ streamers[s].orphans = 0
        /\ streamers[s].pc \in {"new", "fetch", "retry_sleep", "restart_sleep", "done"} =>
               streamers[s].proc = "none"

\* a thread whose process has run is about to spawn the next one, and
\* another one has exited after its process ran
C28_Witness ==
    \E s, t \in Streamers :
        /\ streamers[s].pc = "fetch" /\ streamers[s].ran
        /\ streamers[t].pc = "done" /\ streamers[t].ran

\* C29: a monitor thread of an earlier generation (a later start_streaming
\* has passed its running test) that comes to the head of its loop leaves
\* the loop and ends: it never takes another tick.
C29_StaleMonitorExits ==
    [][\A m \in Monitors :
          (/\ is_alive(mon, m)
           /\ mon[m].stale
           /\ mon[m].pc = "top"
           /\ mon'[m] # mon[m])
          => ~is_alive(mon', m)]_vars

\* the processes a thread has spawned or is stopping and still holds in a
\* local variable: spawned and not yet polled (lines 110-124), or sent
\* terminate() and not yet killed
InHand == {main.process} \cup {mon[m].process : m \in Monitors}

\* C30: every live process is recorded in ffmpeg_processes under its
\* destination name, or is held by the thread that has just spawned it or is
\* stopping it; and no two live processes have the same destination name.
C30_LiveProcessesAreRecorded ==
    /\ \A p \in Pids :
          IsAlive(proc, p) =>
              \/ p \in InHand
              \/ /\ proc[p].name \in Keys(ffmpeg_processes)
                 /\ ProcessOf(ffmpeg_processes, proc[p].name) = p
    /\ \A p, q \in Pids :
          (IsAlive(proc, p) /\ IsAlive(proc, q) /\ proc[p].name = proc[q].name) => p = q

\* C31: while the source is offline from the start of the job on, the
\* monitor never makes a global restart (_restart_all_streams).
C31_NoRestartWithoutChange ==
    \A m \in Monitors : ~twitch_online => ~InRestartAll(mon[m])

\* C32: when BackgroundService.start_streaming has returned False while a
\* job runs, current_config holds the destinations of the running job (those
\* its monitor thread was started with).
C32_FailedStartKeepsConfig ==
    (/\ main.via = "service"
     /\ main.pc = "idle"
     /\ main.last = "start"
     /\ ~main.result
     /\ running
     /\ monitor_thread # None
     /\ is_alive(mon, monitor_thread))
    => current_config = mon[monitor_thread].destinations

\* C33: the log never holds more than max_logs entries, and it holds the
\* most recent entries, in the order in which they were added.
C33_LogBoundedAndRecent ==
    /\ Len(get_logs) = Min(logged, max_logs)
    /\ \A j \in DOMAIN get_logs : get_logs[j] = logged - Len(get_logs) + j

\* more than max_logs entries have been added
C33_Witness == logged > max_logs /\ Len(get_logs) = max_logs

====
